---- MODULE Spec2Model ----
(***************************************************************************)
(* Class-session scheduling and conflict detection of the attendance       *)
(* backend (backend/courses): ClassSession.check_conflicts, the session    *)
(* create / update / destroy views with recurrence expansion, the          *)
(* lecturer free-time finder and the optimal-time suggester.               *)
(*                                                                         *)
(* Times of day are seconds since midnight, dates are day ordinals of a    *)
(* non-leap year, a NULL foreign key or date is 0.                         *)
(***************************************************************************)
EXTENDS Integers, Sequences, FiniteSets, TLC

VARIABLES
    sessions,       \* the class_sessions table: row i has primary key i
    notifications,  \* the notifications table, in insertion order
    reply,          \* the response of the last request served
    procs           \* the requests in flight (interleaved specification only)

vars == <<sessions, notifications, reply, procs>>

---------------------------------------------------------------------------
(* Bounds of the model *)

MaxSessions == 2        \* rows the class_sessions table may hold
NumAssignments == 3     \* course assignments 1..NumAssignments
NumRooms == 2           \* rooms 1..NumRooms
NumStudents == 1        \* students enrolled in every course assignment

(* Program constants *)

SecondsPerMinute == 60
MinutesPerHour == 60
WorkingStartHour == 8
WorkingEndHour == 18
DailyDays == 1
WeeklyDays == 7
BiweeklyDays == 14
FallbackDays == 30
TopSuggestions == 5

Hm(h, m) == (h * MinutesPerHour + m) * SecondsPerMinute

working_start == Hm(WorkingStartHour, 0)
working_end == Hm(WorkingEndHour, 0)

---------------------------------------------------------------------------
(* Reference data the scheduler reads and never writes *)

Assignments == 1..NumAssignments
Rooms == 1..NumRooms

\* CourseAssignment.lecturer: assignments 1 and 3 share lecturer 1
LecturerOf(ca) == IF ca % 2 = 1 THEN 1 ELSE 2

\* (department, level) of CourseAssignment.course: assignments 2 and 3 share
\* cohort 2, assignment 1 has cohort 1 to itself
CohortOf(ca) == IF ca = 1 THEN 1 ELSE 2

Lecturers == {LecturerOf(ca) : ca \in Assignments}

\* Room.room_type and Room.is_available
RoomType(r) == IF r % 3 = 0 THEN "virtual" ELSE "physical"
RoomIsAvailable(r) == r % 4 # 0

\* students whose Enrollment for the assignment has status 'enrolled'
EnrolledStudents(ca) == 1..NumStudents

---------------------------------------------------------------------------
(* ClassSession.check_conflicts *)

\* the overlap test with touching ends counted as overlapping
Overlap_closed(s1, e1, s2, e2) == s1 <= e2 /\ e1 >= s2

\* the overlap test that only sees a candidate starting inside the other
Overlap_start_inside(s1, e1, s2, e2) == s1 >= s2 /\ s1 < e2

\* the overlap test of two intervals of one day
Overlap(s1, e1, s2, e2) == s1 < e2 /\ e1 > s2

\* the filter without is_cancelled=False
Live_cancelled_too(s) == s.is_active

\* filter(is_active=True, is_cancelled=False)
Live(s) == s.is_active /\ ~s.is_cancelled

Ids(store) == 1..Len(store)

\* a queryset's rows in Meta.ordering: scheduled_date, start_time (then key)
Before(store, i, j) ==
    \/ store[i].date < store[j].date
    \/ store[i].date = store[j].date /\ store[i].start < store[j].start
    \/ store[i].date = store[j].date /\ store[i].start = store[j].start /\ i < j

RECURSIVE Ordered(_, _)
Ordered(store, S) ==
    IF S = {} THEN <<>>
    ELSE LET first == CHOOSE i \in S : \A j \in S \ {i} : Before(store, i, j)
         IN  <<first>> \o Ordered(store, S \ {first})

\* the scan without the exclusion of the candidate's own row
Excluded_never(cand, i) == FALSE

\* .exclude(id=self.id if self.id else None): a candidate without key excludes nothing
Excluded(cand, i) == cand.id # 0 /\ i = cand.id

RoomScan(store, cand) ==
    {i \in Ids(store) : /\ store[i].room = cand.room
                        /\ store[i].date = cand.date
                        /\ Live(store[i])
                        /\ ~Excluded(cand, i)}

\* the lecturer's sessions of the date in the candidate's own room only
LecturerScan_same_room(store, cand) ==
    {i \in Ids(store) : /\ LecturerOf(store[i].ca) = LecturerOf(cand.ca)
                        /\ store[i].room = cand.room
                        /\ store[i].date = cand.date
                        /\ Live(store[i])
                        /\ ~Excluded(cand, i)}

LecturerScan(store, cand) ==
    {i \in Ids(store) : /\ LecturerOf(store[i].ca) = LecturerOf(cand.ca)
                        /\ store[i].date = cand.date
                        /\ Live(store[i])
                        /\ ~Excluded(cand, i)}

StudentScan(store, cand) ==
    {i \in Ids(store) : /\ CohortOf(store[i].ca) = CohortOf(cand.ca)
                        /\ store[i].date = cand.date
                        /\ Live(store[i])
                        /\ ~Excluded(cand, i)}

\* a field a request left out (None in validated_data)
Absent == 0 - 1

\* the rows of a scan whose times overlap the candidate's
Hits(store, cand, S) ==
    {i \in S : Overlap(cand.start, cand.end, store[i].start, store[i].end)}

\* comparing None with a time raises TypeError; `and` skips the second
\* comparison when the first is false
CompareRaises(cand, row) ==
    \/ cand.start = Absent
    \/ cand.start < row.end /\ cand.end = Absent

Tagged(kind, ids) == [k \in 1..Len(ids) |-> [type |-> kind, session_id |-> ids[k]]]

\* check_conflicts raises: the candidate has no course assignment, or a
\* scanned row is compared with a missing time
check_conflicts_raises(store, cand) ==
    \/ cand.ca = 0
    \/ cand.room # 0 /\ \E i \in RoomScan(store, cand) : CompareRaises(cand, store[i])
    \/ \E i \in LecturerScan(store, cand) : CompareRaises(cand, store[i])
    \/ \E i \in StudentScan(store, cand) : CompareRaises(cand, store[i])

\* the conflict list: room, then lecturer, then student conflicts
check_conflicts(store, cand) ==
    (IF cand.room # 0
       THEN Tagged("room", Ordered(store, Hits(store, cand, RoomScan(store, cand))))
       ELSE <<>>)
    \o Tagged("lecturer", Ordered(store, Hits(store, cand, LecturerScan(store, cand))))
    \o Tagged("student", Ordered(store, Hits(store, cand, StudentScan(store, cand))))

---------------------------------------------------------------------------
(* Requests: validated_data is the record `data`; data.has names the fields
   the request supplied *)

Field(data, f, default) == IF f \in data.has THEN data[f] ELSE default

\* ClassSessionSerializer.validate: the error it raises, "" when it passes
validate(data) ==
    IF /\ "end" \in data.has /\ "start" \in data.has
       /\ data.end <= data.start
      THEN "End time must be after start time"
    ELSE IF /\ Field(data, "is_recurring", FALSE)
            /\ "pattern" \in data.has /\ data.pattern = "none"
      THEN "Recurrence pattern must be specified for recurring sessions"
    ELSE IF /\ Field(data, "is_recurring", FALSE)
            /\ Field(data, "rec_end", 0) = 0
      THEN "Recurrence end date is required for recurring sessions"
    ELSE ""

\* ClassSession(**session_data): the unsaved candidate handed to check_conflicts
temp_session(data, id) ==
    [id    |-> id,
     ca    |-> Field(data, "ca", 0),
     room  |-> Field(data, "room", 0),
     date  |-> Field(data, "date", 0),
     start |-> Field(data, "start", Absent),
     end   |-> Field(data, "end", Absent)]

\* the candidate of a row for check_conflicts (row i of the table, or unsaved)
AsCandidate(row, id) ==
    [id |-> id, ca |-> row.ca, room |-> row.room, date |-> row.date,
     start |-> row.start, end |-> row.end]

\* serializer.save() of a create: absent fields take the model's defaults
NewRow(data) ==
    [ca           |-> data.ca,
     room         |-> Field(data, "room", 0),
     date         |-> data.date,
     start        |-> data.start,
     end          |-> data.end,
     is_recurring |-> Field(data, "is_recurring", FALSE),
     pattern      |-> Field(data, "pattern", "none"),
     rec_end      |-> Field(data, "rec_end", 0),
     parent       |-> 0,
     is_active    |-> Field(data, "is_active", TRUE),
     is_cancelled |-> Field(data, "is_cancelled", FALSE),
     reason       |-> Field(data, "reason", "")]

\* one 'class_scheduled' notification per enrolled student
ScheduledNotices(ca, id) ==
    [k \in 1..Cardinality(EnrolledStudents(ca)) |->
        [type |-> "class_scheduled", session |-> id, recipient |-> k]]

---------------------------------------------------------------------------
(* Calendar arithmetic of the recurrence increments *)

MonthDays == <<31, 28, 31, 30, 31, 30, 31, 31, 30, 31, 30, 31>>

RECURSIVE MonthOf(_, _)
\* the month holding day `doy` of the year, searching from month m
MonthOf(doy, m) ==
    IF doy <= MonthDays[m] THEN <<m, doy>> ELSE MonthOf(doy - MonthDays[m], m + 1)

RECURSIVE DaysBefore(_)
DaysBefore(m) == IF m = 1 THEN 0 ELSE DaysBefore(m - 1) + MonthDays[m - 1]

Min(a, b) == IF a <= b THEN a ELSE b
Max(a, b) == IF a >= b THEN a ELSE b

\* date + relativedelta(months=1): same day of the next month, clamped to
\* the month's last day
AddMonth(d) ==
    LET year == (d - 1) \div 365
        md   == MonthOf(((d - 1) % 365) + 1, 1)
        m2   == IF md[1] = 12 THEN 1 ELSE md[1] + 1
        y2   == IF md[1] = 12 THEN year + 1 ELSE year
    IN  y2 * 365 + DaysBefore(m2) + Min(md[2], MonthDays[m2])

\* the date after `d` with a monthly fallback that adds no day at all
NextDate_standing(pattern, dateutil, d) ==
    CASE pattern = "daily"    -> d + DailyDays
      [] pattern = "weekly"   -> d + WeeklyDays
      [] pattern = "biweekly" -> d + BiweeklyDays
      [] pattern = "monthly"  -> IF dateutil THEN AddMonth(d) ELSE d

\* the date after `d` in the series; dateutil says whether relativedelta
\* could be imported
NextDate(pattern, dateutil, d) ==
    CASE pattern = "daily"    -> d + DailyDays
      [] pattern = "weekly"   -> d + WeeklyDays
      [] pattern = "biweekly" -> d + BiweeklyDays
      [] pattern = "monthly"  -> IF dateutil THEN AddMonth(d) ELSE d + FallbackDays

Patterns == {"daily", "weekly", "biweekly", "monthly"}

---------------------------------------------------------------------------
(* ClassSessionListCreateView.create_recurring_sessions *)

\* the copy of the parent dated d
recurring_session(store, parent, d) ==
    [ca           |-> store[parent].ca,
     room         |-> store[parent].room,
     date         |-> d,
     start        |-> store[parent].start,
     end          |-> store[parent].end,
     is_recurring |-> FALSE,
     pattern      |-> "none",
     rec_end      |-> 0,
     parent       |-> parent,
     is_active    |-> TRUE,
     is_cancelled |-> FALSE,
     reason       |-> ""]

\* one pass of the loop that saves the copy without looking at its conflicts
RecurStep_unchecked(store, parent, d) ==
    Append(store, recurring_session(store, parent, d))

\* one pass of the while loop: the table after the candidate dated d
RecurStep(store, parent, d) ==
    LET child == recurring_session(store, parent, d)
    IN  IF check_conflicts(store, AsCandidate(child, 0)) = <<>>
          THEN Append(store, child)
          ELSE store

RECURSIVE RecurLoop_before_end(_, _, _, _)
\* the loop that stops before the end date instead of on it
RecurLoop_before_end(store, parent, dateutil, d) ==
    IF d < store[parent].rec_end
      THEN RecurLoop_before_end(RecurStep(store, parent, d), parent, dateutil,
                                NextDate(store[parent].pattern, dateutil, d))
      ELSE store

RECURSIVE RecurLoop_stops_at_conflict(_, _, _, _)
\* the loop that gives the series up at the first date with a conflict
RecurLoop_stops_at_conflict(store, parent, dateutil, d) ==
    IF d <= store[parent].rec_end /\ RecurStep(store, parent, d) # store
      THEN RecurLoop_stops_at_conflict(RecurStep(store, parent, d), parent, dateutil,
                                       NextDate(store[parent].pattern, dateutil, d))
      ELSE store

RECURSIVE RecurLoop(_, _, _, _)
RecurLoop(store, parent, dateutil, d) ==
    IF d <= store[parent].rec_end
      THEN RecurLoop(RecurStep(store, parent, d), parent, dateutil,
                     NextDate(store[parent].pattern, dateutil, d))
      ELSE store

create_recurring_sessions(store, parent, dateutil) ==
    IF store[parent].pattern \in Patterns
      THEN RecurLoop(store, parent, dateutil,
                     NextDate(store[parent].pattern, dateutil, store[parent].date))
      ELSE store

---------------------------------------------------------------------------
(* Session create / update / destroy, each request served in one step *)

NoReply == [op |-> "none", status |-> 0, error |-> "", details |-> <<>>]

Idle == [p \in {1, 2} |-> [pc |-> "idle"]]

\* the response of a mutation: the request, the HTTP status, the error raised
\* and the conflict details it carries
Response(op, id, data, status, error, details) ==
    [op |-> op, id |-> id, data |-> data, status |-> status,
     error |-> error, details |-> details]

\* serializer.save(created_by=...) followed by the notifications
SaveNew(store, data) == Append(store, NewRow(data))

\* perform_create with the session saved before the conflicts are looked at
perform_create_saves_first(data, dateutil, cap) ==
    LET conflicts == check_conflicts(sessions, temp_session(data, 0))
        saved     == SaveNew(sessions, data)
    IN  /\ Len(saved) <= cap
        /\ sessions' = saved
        /\ notifications' = notifications \o ScheduledNotices(data.ca, Len(saved))
        /\ reply' = IF conflicts # <<>>
                      THEN Response("create", 0, data, 400, "conflicts", conflicts)
                      ELSE Response("create", Len(saved), data, 201, "", <<>>)

\* ClassSessionListCreateView.perform_create after validation
perform_create(data, dateutil, cap) ==
    LET conflicts == check_conflicts(sessions, temp_session(data, 0))
        saved     == SaveNew(sessions, data)
        id        == Len(saved)
        expanded  == IF saved[id].is_recurring /\ saved[id].pattern # "none"
                       THEN create_recurring_sessions(saved, id, dateutil)
                       ELSE saved
    IN  IF conflicts # <<>>
          THEN /\ reply' = Response("create", 0, data, 400, "conflicts", conflicts)
               /\ UNCHANGED <<sessions, notifications>>
          ELSE /\ Len(expanded) <= cap
               /\ sessions' = expanded
               /\ notifications' = notifications \o ScheduledNotices(data.ca, id)
               /\ reply' = Response("create", id, data, 201, "", <<>>)

\* POST sessions/: is_valid(raise_exception=True), then perform_create
Create(data, dateutil, cap) ==
    /\ reply = NoReply
    /\ IF validate(data) # ""
         THEN /\ reply' = Response("create", 0, data, 400, validate(data), <<>>)
              /\ UNCHANGED <<sessions, notifications>>
         ELSE perform_create(data, dateutil, cap)
    /\ UNCHANGED procs

\* a queryset of every saved row, deleted ones too
Addressable_any(store, id) == id \in Ids(store)

\* ClassSessionDetailView.get_queryset: only active rows can be addressed
Addressable(store, id) == id \in Ids(store) /\ store[id].is_active

\* serializer.save() of an update: the supplied fields replace the row's
Updated(row, data) ==
    [f \in DOMAIN row |-> IF f \in data.has THEN data[f] ELSE row[f]]

\* ClassSessionDetailView.perform_update after validation
perform_update(id, data) ==
    LET cand == temp_session(data, id)
    IN  IF check_conflicts_raises(sessions, cand)
          THEN /\ reply' = Response("update", id, data, 500, "exception", <<>>)
               /\ UNCHANGED sessions
        ELSE IF check_conflicts(sessions, cand) # <<>>
          THEN /\ reply' = Response("update", id, data, 400, "conflicts",
                                    check_conflicts(sessions, cand))
               /\ UNCHANGED sessions
        ELSE /\ sessions' = [sessions EXCEPT ![id] = Updated(sessions[id], data)]
             /\ reply' = Response("update", id, data, 200, "", <<>>)

\* PUT / PATCH sessions/<id>/
Update(id, data) ==
    /\ reply = NoReply
    /\ IF ~Addressable(sessions, id)
         THEN /\ reply' = Response("update", id, data, 404, "not found", <<>>)
              /\ UNCHANGED sessions
       ELSE IF validate(data) # ""
         THEN /\ reply' = Response("update", id, data, 400, validate(data), <<>>)
              /\ UNCHANGED sessions
       ELSE perform_update(id, data)
    /\ UNCHANGED <<notifications, procs>>

Children(store, id) == {c \in Ids(store) : store[c].parent = id}

\* perform_destroy that deactivates the children whatever delete_all says
perform_destroy_with_children(store, id, delete_all) ==
    [i \in Ids(store) |->
        IF i = id \/ i \in Children(store, id)
          THEN [store[i] EXCEPT !.is_active = FALSE]
          ELSE store[i]]

\* ClassSessionDetailView.perform_destroy
perform_destroy(store, id, delete_all) ==
    [i \in Ids(store) |->
        IF \/ i = id
           \/ /\ store[id].is_recurring /\ Children(store, id) # {}
              /\ delete_all /\ i \in Children(store, id)
          THEN [store[i] EXCEPT !.is_active = FALSE]
          ELSE store[i]]

\* DELETE sessions/<id>/?delete_all=
Destroy(id, delete_all) ==
    /\ reply = NoReply
    /\ IF ~Addressable(sessions, id)
         THEN /\ reply' = Response("destroy", id, [delete_all |-> delete_all],
                                   404, "not found", <<>>)
              /\ UNCHANGED sessions
         ELSE /\ sessions' = perform_destroy(sessions, id, delete_all)
              /\ reply' = Response("destroy", id, [delete_all |-> delete_all],
                                   204, "", <<>>)
    /\ UNCHANGED <<notifications, procs>>

\* ClassSessionSerializer.get_conflicts of a saved row
get_conflicts(store, id) == check_conflicts(store, AsCandidate(store[id], id))

\* GET sessions/<id>/: the serialized row with its `conflicts` field
Retrieve(id) ==
    /\ reply = NoReply
    /\ IF ~Addressable(sessions, id)
         THEN reply' = Response("retrieve", id, <<>>, 404, "not found", <<>>)
         ELSE reply' = Response("retrieve", id, <<>>, 200, "",
                                get_conflicts(sessions, id))
    /\ UNCHANGED <<sessions, notifications, procs>>

\* the response leaves the server; requests are served one after another
Respond ==
    /\ reply # NoReply
    /\ reply' = NoReply
    /\ UNCHANGED <<sessions, notifications, procs>>

---------------------------------------------------------------------------
(* lecturer_free_times *)

\* time.strftime('%H:%M') keeps hours and minutes and drops the seconds: the
\* text is the minute of the day; strptime(text, '%H:%M') reads it back
FormatHM(t) == t \div SecondsPerMinute
ParseHM(text) == text * SecondsPerMinute

\* (combine(today, b) - combine(today, a)).seconds // 60 for a < b
MinutesBetween(a, b) == (b - a) \div SecondsPerMinute

\* .order_by('start_time') (rows of equal start by key)
BeforeStart(store, i, j) ==
    \/ store[i].start < store[j].start
    \/ store[i].start = store[j].start /\ i < j

RECURSIVE OrderedByStart(_, _)
OrderedByStart(store, S) ==
    IF S = {} THEN <<>>
    ELSE LET first == CHOOSE i \in S : \A j \in S \ {i} : BeforeStart(store, i, j)
         IN  <<first>> \o OrderedByStart(store, S \ {first})

\* the lecturer's sessions of the date that count as busy
existing_sessions(store, lecturer, date) ==
    {i \in Ids(store) : /\ LecturerOf(store[i].ca) = lecturer
                        /\ store[i].date = date
                        /\ Live(store[i])}

Slot(from, to, minutes) ==
    [start_time |-> FormatHM(from), end_time |-> FormatHM(to),
     duration_minutes |-> minutes]

RECURSIVE FreeWalk(_, _, _, _, _, _)
\* the loop over the busy sessions, from the k-th on, with the cursor at
\* current_time; yields the cursor and the slots after the last session
FreeWalk(store, busy, k, current_time, duration, free_slots) ==
    IF k > Len(busy) THEN [current_time |-> current_time, free_slots |-> free_slots]
    ELSE LET session == store[busy[k]]
             gap_minutes == MinutesBetween(current_time, session.start)
         IN  FreeWalk(store, busy, k + 1, Max(current_time, session.end), duration,
                 IF current_time < session.start /\ gap_minutes >= duration
                   THEN Append(free_slots,
                               Slot(current_time, session.start, gap_minutes))
                   ELSE free_slots)

\* the walk without the check for time after the last session
free_slots_without_trailing(store, lecturer, date, duration) ==
    LET busy == OrderedByStart(store, existing_sessions(store, lecturer, date))
    IN  FreeWalk(store, busy, 1, working_start, duration, <<>>).free_slots

free_slots_of(store, lecturer, date, duration) ==
    LET busy == OrderedByStart(store, existing_sessions(store, lecturer, date))
        walk == FreeWalk(store, busy, 1, working_start, duration, <<>>)
        remaining_minutes == MinutesBetween(walk.current_time, working_end)
    IN  IF walk.current_time < working_end /\ remaining_minutes >= duration
          THEN Append(walk.free_slots,
                      Slot(walk.current_time, working_end, remaining_minutes))
          ELSE walk.free_slots

\* the listing of the busy sessions in the response
existing_listing(store, lecturer, date) ==
    LET busy == OrderedByStart(store, existing_sessions(store, lecturer, date))
    IN  [k \in 1..Len(busy) |->
            [ca |-> store[busy[k]].ca,
             start_time |-> FormatHM(store[busy[k]].start),
             end_time |-> FormatHM(store[busy[k]].end)]]

\* the response of lecturer_free_times to the query parameters q; a
\* parameter left out is 0
lecturer_free_times(store, q) ==
    IF q.lecturer_id = 0 \/ q.date = 0
      THEN [status |-> 400, free_slots |-> <<>>, existing_sessions |-> <<>>]
    ELSE IF q.lecturer_id \notin Lecturers
      THEN [status |-> 404, free_slots |-> <<>>, existing_sessions |-> <<>>]
    ELSE [status |-> 200,
          free_slots |-> free_slots_of(store, q.lecturer_id, q.date, q.duration),
          existing_sessions |-> existing_listing(store, q.lecturer_id, q.date)]

\* the response of a query: the parameters, the HTTP status and the body
Answer(op, q, status, out) ==
    [op |-> op, q |-> q, status |-> status, out |-> out]

\* GET lecturer-free-times/
LecturerFreeTimes(q) ==
    /\ reply = NoReply
    /\ reply' = Answer("free_times", q, lecturer_free_times(sessions, q).status,
                       lecturer_free_times(sessions, q))
    /\ UNCHANGED <<sessions, notifications, procs>>

---------------------------------------------------------------------------
(* suggest_optimal_times *)

\* the student sessions of the course's department and level on the date
student_conflicts(store, ca, date) ==
    {i \in Ids(store) : /\ CohortOf(store[i].ca) = CohortOf(ca)
                        /\ store[i].date = date
                        /\ Live(store[i])}

\* Room.objects.filter(room_type=..., is_available=True)
available_rooms(room_type) ==
    {r \in Rooms : RoomType(r) = room_type /\ RoomIsAvailable(r)}

room_conflicts(store, room, date) ==
    {i \in Ids(store) : /\ store[i].room = room
                        /\ store[i].date = date
                        /\ Live(store[i])}

\* the rooms of the type with no session over [start_time, end_time)
available_rooms_for_slot(store, date, room_type, start_time, end_time) ==
    {r \in available_rooms(room_type) :
        \A i \in room_conflicts(store, r, date) :
            ~Overlap(start_time, end_time, store[i].start, store[i].end)}

RECURSIVE SetToSeq(_)
\* a set of keys in ascending order
SetToSeq(S) ==
    IF S = {} THEN <<>>
    ELSE LET least == CHOOSE x \in S : \A y \in S : x <= y
         IN  <<least>> \o SetToSeq(S \ {least})

\* (combine(today, start) + timedelta(minutes=duration)).time(): the time of
\* day, past midnight it starts over
PlusMinutes(t, minutes) == (t + minutes * SecondsPerMinute) % Hm(24, 0)

RECURSIVE SuggestWalk(_, _, _, _)
\* the loop over the lecturer's free slots, from the k-th on
SuggestWalk(store, q, slots, k) ==
    IF k > Len(slots) THEN <<>>
    ELSE LET start_time == ParseHM(slots[k].start_time)
             end_time   == PlusMinutes(start_time, q.duration)
             has_student_conflict ==
                 \E i \in student_conflicts(store, q.course_assignment_id, q.date) :
                     Overlap(start_time, end_time, store[i].start, store[i].end)
             rooms == available_rooms_for_slot(store, q.date, q.room_type,
                                               start_time, end_time)
             rest == SuggestWalk(store, q, slots, k + 1)
         IN  IF /\ slots[k].duration_minutes >= q.duration
                /\ ~has_student_conflict
                /\ rooms # {}
               THEN <<[start_time |-> FormatHM(start_time),
                       end_time |-> FormatHM(end_time),
                       duration_minutes |-> q.duration,
                       available_rooms |-> SetToSeq(rooms),
                       score |-> Cardinality(rooms)]>> \o rest
               ELSE rest

RECURSIVE InsertByScore_ties_first(_, _)
\* x put in front of every entry of seq whose score is at most x's
InsertByScore_ties_first(seq, x) ==
    IF seq = <<>> THEN <<x>>
    ELSE IF Head(seq).score > x.score
           THEN <<Head(seq)>> \o InsertByScore_ties_first(Tail(seq), x)
           ELSE <<x>> \o seq

RECURSIVE InsertByScore(_, _)
\* x put behind every entry of seq whose score is at least x's
InsertByScore(seq, x) ==
    IF seq = <<>> THEN <<x>>
    ELSE IF Head(seq).score >= x.score
           THEN <<Head(seq)>> \o InsertByScore(Tail(seq), x)
           ELSE <<x>> \o seq

RECURSIVE SortByScore(_)
\* list.sort(key=score, reverse=True): stable, highest score first
SortByScore(seq) ==
    IF seq = <<>> THEN <<>>
    ELSE InsertByScore(SortByScore(SubSeq(seq, 1, Len(seq) - 1)), seq[Len(seq)])

Top(seq, n) == SubSeq(seq, 1, Min(n, Len(seq)))

\* the response of suggest_optimal_times to the query parameters q
suggest_optimal_times(store, q) ==
    LET lecturer_response == lecturer_free_times(store, q)
    IN  IF q.course_assignment_id = 0 \/ q.date = 0
          THEN [status |-> 400, optimal_suggestions |-> <<>>]
        ELSE IF q.course_assignment_id \notin Assignments
          THEN [status |-> 404, optimal_suggestions |-> <<>>]
        ELSE IF lecturer_response.status # 200
          THEN [status |-> lecturer_response.status, optimal_suggestions |-> <<>>]
        ELSE [status |-> 200,
              optimal_suggestions |->
                  Top(SortByScore(SuggestWalk(store, q, lecturer_response.free_slots, 1)),
                      TopSuggestions)]

\* GET sessions/suggest-times/
SuggestOptimalTimes(q) ==
    /\ reply = NoReply
    /\ reply' = Answer("suggest", q, suggest_optimal_times(sessions, q).status,
                       suggest_optimal_times(sessions, q))
    /\ UNCHANGED <<sessions, notifications, procs>>

---------------------------------------------------------------------------
(* Inputs of the requests *)

NumTimes == 3
TimeInputs == {Hm(WorkingStartHour + k, 0) : k \in 1..NumTimes}
NumDates == 1
DateInputs == 1..NumDates

Required == {"ca", "date", "start", "end"}

\* the fields a request may carry beyond the required ones
Blank == [room |-> 0, is_recurring |-> FALSE, pattern |-> "none", rec_end |-> 0,
          is_active |-> TRUE, is_cancelled |-> FALSE, reason |-> ""]

Make(has, ca, room, date, start, end, extra) ==
    [has |-> has, ca |-> ca, room |-> room, date |-> date, start |-> start,
     end |-> end, is_recurring |-> extra.is_recurring, pattern |-> extra.pattern,
     rec_end |-> extra.rec_end, is_active |-> extra.is_active,
     is_cancelled |-> extra.is_cancelled, reason |-> extra.reason]

\* plain sessions: every assignment, room (or none), date and pair of times
PlainInputs ==
    {Make(Required \cup {"room"}, ca, room, date, start, end, Blank) :
        ca \in Assignments, room \in 0..1, date \in DateInputs,
        start \in TimeInputs, end \in TimeInputs}

\* the inputs that pass the serializer's check of the times
Timed(inputs) == {p \in inputs : p.end > p.start}

\* a daily series ending the day after the session
Daily(p) ==
    [p EXCEPT !.has = @ \cup {"is_recurring", "pattern", "rec_end"},
              !.is_recurring = TRUE, !.pattern = "daily", !.rec_end = p.date + 1]

\* a recurring session without an end date
Endless(p) ==
    [p EXCEPT !.has = @ \cup {"is_recurring", "pattern"},
              !.is_recurring = TRUE, !.pattern = "daily"]

\* a request that leaves the room, or the date, out
NoRoom(p) == [p EXCEPT !.has = @ \ {"room"}, !.room = 0]
NoDate(p) == [p EXCEPT !.has = @ \ {"date"}, !.date = 0]

CreateInputs ==
    PlainInputs
    \cup {Daily(p) : p \in Timed(PlainInputs)}
    \cup {Endless(p) : p \in Timed(PlainInputs)}

UpdateInputs ==
    PlainInputs
    \cup {NoRoom(p) : p \in Timed(PlainInputs)}
    \cup {NoDate(p) : p \in Timed(PlainInputs)}

Init ==
    /\ sessions = <<>>
    /\ notifications = <<>>
    /\ reply = NoReply
    /\ procs = Idle

Next ==
    \/ \E data \in CreateInputs : Create(data, TRUE, MaxSessions)
    \/ \E id \in 1..MaxSessions, data \in UpdateInputs : Update(id, data)
    \/ \E id \in 1..MaxSessions, delete_all \in BOOLEAN : Destroy(id, delete_all)
    \/ \E id \in 1..MaxSessions : Retrieve(id)
    \/ Respond

Spec == Init /\ [][Next]_vars

---------------------------------------------------------------------------
(* The read operations over tables of every shape: the table is drawn from
   the rows below (live, cancelled and deleted ones, overlapping or not) *)

QueryRows == 2

Row(ca, room, date, start, end, active, cancelled) ==
    [ca |-> ca, room |-> room, date |-> date, start |-> start, end |-> end,
     is_recurring |-> FALSE, pattern |-> "none", rec_end |-> 0, parent |-> 0,
     is_active |-> active, is_cancelled |-> cancelled, reason |-> ""]

\* rows the serializer lets through: the end after the start
WellFormed(rows) == {r \in rows : r.end > r.start}

QueryRowSet ==
    WellFormed({Row(ca, room, 1, start, end, active, cancelled) :
        ca \in Assignments, room \in 0..NumRooms,
        start \in TimeInputs, end \in TimeInputs,
        active \in BOOLEAN, cancelled \in BOOLEAN})

Tables(rows, n) == UNION {[1..k -> rows] : k \in 0..n}

\* candidate sessions: every assignment, room (or none) and interval
QueryInputs ==
    Timed({Make(Required \cup {"room"}, ca, room, 1, start, end, Blank) :
        ca \in Assignments, room \in 0..NumRooms,
        start \in TimeInputs, end \in TimeInputs})

\* durations asked for, in minutes
DurationInputs == {1, 60, 120}

FreeQueries ==
    {[lecturer_id |-> l, date |-> 1, duration |-> d] :
        l \in Lecturers \cup {0}, d \in DurationInputs}

SuggestQueries ==
    {[course_assignment_id |-> ca, lecturer_id |-> l, date |-> 1, duration |-> d,
      room_type |-> t] :
        ca \in Assignments, l \in Lecturers, d \in {60, 120},
        t \in {"physical", "virtual"}}

InitQuery ==
    /\ sessions \in Tables(QueryRowSet, QueryRows)
    /\ notifications = <<>>
    /\ reply = NoReply
    /\ procs = Idle

NextQuery ==
    \/ \E data \in QueryInputs : Create(data, TRUE, QueryRows)
    \/ \E id \in 1..QueryRows : Retrieve(id)
    \/ \E q \in FreeQueries : LecturerFreeTimes(q)
    \/ \E q \in SuggestQueries : SuggestOptimalTimes(q)
    \/ Respond

SpecQuery == InitQuery /\ [][NextQuery]_vars

---------------------------------------------------------------------------
(* Properties *)

Range(seq) == {seq[k] : k \in DOMAIN seq}

\* a step that serves a request of the kind
Serves(op) == reply = NoReply /\ reply'.op = op

\* a session out of the schedule: cancelled or deleted
Dead(row) == row.is_cancelled \/ ~row.is_active

\* the times of the candidate run into the times of the row
TimesCross(cand, row) == cand.start < row.end /\ cand.end > row.start

\* the conflicts a candidate has with row j, by kind, stated from the rows
Clashes(store, cand, j) ==
    IF Dead(store[j]) \/ store[j].date # cand.date \/ ~TimesCross(cand, store[j])
         \/ j = cand.id
      THEN {}
      ELSE {[type |-> "room", session_id |-> j] :
                x \in {1} \cap {IF cand.room # 0 /\ store[j].room = cand.room
                                  THEN 1 ELSE 0}}
           \cup {[type |-> "lecturer", session_id |-> j] :
                x \in {1} \cap {IF LecturerOf(store[j].ca) = LecturerOf(cand.ca)
                                  THEN 1 ELSE 0}}
           \cup {[type |-> "student", session_id |-> j] :
                x \in {1} \cap {IF CohortOf(store[j].ca) = CohortOf(cand.ca)
                                  THEN 1 ELSE 0}}

AllClashes(store, cand) == UNION {Clashes(store, cand, j) : j \in Ids(store)}

\* C2: a create whose candidate (an input that passed validation) has
\* conflicts fails with an error that carries every conflict, and the tables
\* are unchanged: no session, no recurring child, no notification is written.
C2_ConflictingCreateFails ==
    [][Serves("create") /\ validate(reply'.data) = ""
         /\ check_conflicts(sessions, temp_session(reply'.data, 0)) # <<>>
       => /\ reply'.status = 400
          /\ Range(reply'.details) = AllClashes(sessions, temp_session(reply'.data, 0))
          /\ reply'.details # <<>>
          /\ sessions' = sessions
          /\ notifications' = notifications]_vars

\* a recurring create was refused for two conflicts or more
C2_Witness ==
    /\ reply.op = "create" /\ reply.status = 400 /\ reply.error = "conflicts"
    /\ reply.data.is_recurring
    /\ Len(reply.details) >= 2
    /\ sessions # <<>>

\* the candidate a served create or retrieve ran the detector on
Detected ==
    IF reply.op = "create" THEN temp_session(reply.data, 0)
    ELSE AsCandidate(sessions[reply.id], reply.id)

\* the rows the table held when the detector ran
RowsSeen == IF reply.op = "create" /\ reply.status = 201
              THEN 1..(reply.id - 1) ELSE Ids(sessions)

DetectorRan ==
    \/ reply.op = "create" /\ validate(reply.data) = ""
    \/ reply.op = "retrieve" /\ reply.status = 200

\* C3: for live sessions A and B of one room and date with A.start < B.end
\* and A.end > B.start, detecting for A with B saved reports a room conflict
\* naming B, and detecting for B with A saved reports one naming A.
C3_RoomOverlapReportedBothWays ==
    DetectorRan =>
        \A b \in RowsSeen \ {Detected.id} :
            LET A == Detected
                B == sessions[b]
            IN  /\ ~Dead(B) /\ A.room # 0 /\ B.room = A.room /\ B.date = A.date
                /\ \/ A.start < B.end /\ A.end > B.start
                   \/ B.start < A.end /\ B.end > A.start
                => [type |-> "room", session_id |-> b] \in Range(reply.details)

\* a saved session was retrieved and answers with a room conflict against
\* another saved session of its room, both live
C3_Witness ==
    /\ reply.op = "retrieve" /\ reply.status = 200
    /\ ~Dead(sessions[reply.id])
    /\ \E b \in Ids(sessions) \ {reply.id} :
          /\ ~Dead(sessions[b]) /\ sessions[b].room = sessions[reply.id].room
          /\ sessions[b].room # 0
          /\ sessions[b].start < sessions[reply.id].start
          /\ [type |-> "room", session_id |-> b] \in Range(reply.details)

\* C4: an existing session of the candidate's date that the candidate only
\* touches (candidate.end = existing.start or candidate.start = existing.end)
\* is named by no conflict of any kind.
C4_TouchingNeverConflicts ==
    DetectorRan =>
        \A b \in RowsSeen \ {Detected.id} :
            /\ sessions[b].date = Detected.date
            /\ \/ Detected.end = sessions[b].start
               \/ Detected.start = sessions[b].end
            => \A c \in Range(reply.details) : c.session_id # b

\* a session was created right after a live one of its room, lecturer and cohort
C4_Witness ==
    /\ reply.op = "create" /\ reply.status = 201
    /\ \E b \in RowsSeen :
          /\ ~Dead(sessions[b])
          /\ sessions[b].ca = reply.data.ca
          /\ sessions[b].room = reply.data.room /\ reply.data.room # 0
          /\ sessions[b].date = reply.data.date
          /\ sessions[b].end = reply.data.start

\* the table without its cancelled and deleted rows
Alive(store) == SelectSeq(store, LAMBDA row : ~Dead(row))

\* C5: a cancelled or deleted session is never named in a result of the
\* conflict detector, never counts as busy time of the free-slot finder, and
\* never makes a room unavailable or a cohort conflicting in the suggester:
\* the finder and the suggester answer as if those rows were not there.
C5_DeadSessionsIgnored ==
    /\ DetectorRan =>
          \A c \in Range(reply.details) : ~Dead(sessions[c.session_id])
    /\ reply.op = "free_times" =>
          reply.out = lecturer_free_times(Alive(sessions), reply.q)
    /\ reply.op = "suggest" =>
          reply.out = suggest_optimal_times(Alive(sessions), reply.q)

\* the finder answered one whole free day for a lecturer whose only sessions
\* of the date are cancelled or deleted
C5_Witness ==
    /\ reply.op = "free_times" /\ reply.status = 200
    /\ reply.out.existing_sessions = <<>>
    /\ Len(reply.out.free_slots) = 1
    /\ \E j \in Ids(sessions) :
          /\ LecturerOf(sessions[j].ca) = reply.q.lecturer_id
          /\ sessions[j].is_cancelled /\ sessions[j].is_active
    /\ \E j \in Ids(sessions) :
          /\ LecturerOf(sessions[j].ca) = reply.q.lecturer_id
          /\ ~sessions[j].is_active

\* the input repeats the scheduling fields the row holds
Repeats(data, row) ==
    /\ data.has = Required \cup {"room"}
    /\ data.ca = row.ca /\ data.room = row.room /\ data.date = row.date
    /\ data.start = row.start /\ data.end = row.end

\* C6: an update of a saved session S runs the detection with S excluded: the
\* conflict list never names S; an update that repeats S's own fields succeeds
\* when no other session conflicts; every other live session the candidate
\* overlaps in room, lecturer or cohort is still reported.
C6_UpdateExcludesOnlyItself ==
    [][Serves("update") /\ Addressable(sessions, reply'.id)
       => LET id   == reply'.id
              data == reply'.data
              cand == temp_session(data, id)
          IN  /\ \A c \in Range(reply'.details) : c.session_id # id
              /\ Repeats(data, sessions[id]) /\ AllClashes(sessions, cand) = {}
                 => reply'.status = 200 /\ sessions' = sessions
              /\ Required \subseteq data.has /\ validate(data) = ""
                 => /\ Range(reply'.details) = AllClashes(sessions, cand)
                    /\ AllClashes(sessions, cand) # {}
                       => reply'.status = 400 /\ sessions' = sessions]_vars

\* an update that repeats the row's own fields went through while another
\* live session sits on the same date
C6_Witness ==
    /\ reply.op = "update" /\ reply.status = 200
    /\ Repeats(reply.data, sessions[reply.id])
    /\ \E j \in Ids(sessions) \ {reply.id} :
          ~Dead(sessions[j]) /\ sessions[j].date = sessions[reply.id].date

\* the interval of a suggestion, in seconds of the day
Suggested(s) ==
    [start |-> s.start_time * SecondsPerMinute, end |-> s.end_time * SecondsPerMinute]

\* C7: every suggestion returned for (course assignment, date, minutes, room
\* type) is conflict-free: its interval overlaps no live session of the date
\* of the assignment's lecturer, none of the assignment's cohort, and none
\* held in a room the suggestion lists.
C7_SuggestionsConflictFree ==
    reply.op = "suggest" /\ reply.status = 200 =>
        \A s \in Range(reply.out.optimal_suggestions) :
            \A j \in Ids(sessions) :
                /\ ~Dead(sessions[j]) /\ sessions[j].date = reply.q.date
                /\ \/ LecturerOf(sessions[j].ca) = LecturerOf(reply.q.course_assignment_id)
                   \/ CohortOf(sessions[j].ca) = CohortOf(reply.q.course_assignment_id)
                   \/ sessions[j].room \in Range(s.available_rooms)
                => ~TimesCross(Suggested(s), sessions[j])

---------------------------------------------------------------------------
(* The free-time finder over days of every shape: sessions before, across
   and after the working hours, sessions that overlap each other (two
   interleaved creates leave such rows behind) and times with seconds *)

FreeRows == 2

\* sessions before, across, inside and after the working hours
FreeIntervals ==
    {<<Hm(7, 0), Hm(8, 0)>>, <<Hm(7, 0), Hm(9, 0)>>,
     <<Hm(8, 0), Hm(18, 0)>>,
     <<Hm(9, 0), Hm(9, 0) + 30>>, <<Hm(9, 0), Hm(10, 0)>>,
     <<Hm(9, 0) + 30, Hm(10, 0)>>, <<Hm(10, 0), Hm(17, 0)>>,
     <<Hm(17, 0), Hm(19, 0)>>, <<Hm(18, 0), Hm(19, 0)>>,
     <<Hm(19, 0), Hm(20, 0)>>}

FreeRowSet ==
    {Row(ca, 0, 1, t[1], t[2], TRUE, FALSE) : ca \in Assignments, t \in FreeIntervals}

InitFree ==
    /\ sessions \in Tables(FreeRowSet, FreeRows)
    /\ notifications = <<>>
    /\ reply = NoReply
    /\ procs = Idle

NextFree ==
    \/ \E q \in FreeQueries : LecturerFreeTimes(q)
    \/ Respond

SpecFree == InitFree /\ [][NextFree]_vars

\* the minutes of the working window [08:00, 18:00)
WindowMinutes == (WorkingStartHour * MinutesPerHour)..(WorkingEndHour * MinutesPerHour - 1)

\* the free slots and the busy sessions of an answer that hold minute m
SlotsAt(out, m) ==
    {k \in DOMAIN out.free_slots :
        out.free_slots[k].start_time <= m /\ m < out.free_slots[k].end_time}
BusyAt(out, m) ==
    {k \in DOMAIN out.existing_sessions :
        out.existing_sessions[k].start_time <= m /\ m < out.existing_sessions[k].end_time}

\* the minutes of the window at which a slot or a busy session of an answer
\* starts or ends, and the window's first minute: between two of them the
\* slots and sessions that hold a minute do not change
Turns(out) ==
    WindowMinutes \cap
        ({WorkingStartHour * MinutesPerHour}
         \cup {out.free_slots[k].start_time : k \in DOMAIN out.free_slots}
         \cup {out.free_slots[k].end_time : k \in DOMAIN out.free_slots}
         \cup {out.existing_sessions[k].start_time : k \in DOMAIN out.existing_sessions}
         \cup {out.existing_sessions[k].end_time : k \in DOMAIN out.existing_sessions})

\* every minute of the window lies in exactly one free slot or busy session
Tiled(out) ==
    \A m \in Turns(out) :
        Cardinality(SlotsAt(out, m)) + Cardinality(BusyAt(out, m)) = 1

\* the lecturer's live sessions of the date, read off the table
BusyRows(store, q) ==
    {j \in Ids(store) : /\ ~Dead(store[j])
                        /\ store[j].date = q.date
                        /\ LecturerOf(store[j].ca) = q.lecturer_id}

\* the unbooked stretches of the window: from the window's start or a busy
\* session's end to the window's end or the next busy session's start
Gaps(store, q) ==
    LET busy   == BusyRows(store, q)
        froms  == {working_start} \cup {store[j].end : j \in busy}
        tos    == {working_end} \cup {store[j].start : j \in busy}
    IN  {g \in froms \X tos :
            /\ working_start <= g[1] /\ g[1] < g[2] /\ g[2] <= working_end
            /\ \A j \in busy : ~(store[j].start < g[2] /\ store[j].end > g[1])}

\* no two busy sessions overlap and no unbooked stretch is shorter than the
\* minutes asked for
Packed(store, q) ==
    /\ \A i, j \in BusyRows(store, q) : i # j => ~TimesCross(store[i], store[j])
    /\ \A g \in Gaps(store, q) : g[2] - g[1] >= q.duration * SecondsPerMinute

C9_SlotsWithinWindow ==
    reply.op = "free_times" /\ reply.status = 200 =>
        \A k \in DOMAIN reply.out.free_slots :
            /\ reply.out.free_slots[k].start_time >= WorkingStartHour * MinutesPerHour
            /\ reply.out.free_slots[k].end_time <= WorkingEndHour * MinutesPerHour

---------------------------------------------------------------------------
(* Recurring creates over tables that already hold sessions on the dates of
   the series *)

RecurRows == 1      \* sessions the table holds before the series
MaxSeries == 4      \* rows the table may hold in all

\* dates the series from day 1 fall on
SeriesDates == {2, 8, 15}

\* end dates asked for: before the first date of the series, on a date of
\* the series and between two of them
SeriesEnds(pattern) ==
    CASE pattern = "daily"    -> {1, 2, 3}
      [] pattern = "weekly"   -> {7, 14, 15}
      [] pattern = "biweekly" -> {14, 15, 29}

SeriesRowSet ==
    {Row(ca, room, date, Hm(9, 0), Hm(10, 0), TRUE, cancelled) :
        ca \in Assignments, room \in 0..1, date \in SeriesDates,
        cancelled \in BOOLEAN}

\* a recurring request in the pattern up to the end date
Series(p, pattern, rec_end) ==
    [p EXCEPT !.has = @ \cup {"is_recurring", "pattern", "rec_end"},
              !.is_recurring = TRUE, !.pattern = pattern, !.rec_end = rec_end]

SeriesInputs ==
    UNION {{Series(Make(Required \cup {"room"}, ca, room, 1, Hm(9, 0), Hm(10, 0), Blank),
                   pattern, rec_end) :
               ca \in Assignments, room \in 0..1, rec_end \in SeriesEnds(pattern)} :
           pattern \in {"daily", "weekly", "biweekly"}}

InitRecur ==
    /\ sessions \in Tables(SeriesRowSet, RecurRows)
    /\ notifications = <<>>
    /\ reply = NoReply
    /\ procs = Idle

\* one recurring create on each table
NextRecur == \E data \in SeriesInputs : Create(data, TRUE, MaxSeries)

SpecRecur == InitRecur /\ [][NextRecur]_vars

\* the rows a served create added after the parent
Kids == {c \in Ids(sessions) : c > reply.id}

\* the dates parent.date + k * increment, k >= 1, up to the end date
Grid(from, increment, to) ==
    {d \in (from + 1)..to : (d - from) % increment = 0}

\* the parent's copy dated d, as a candidate without key
Clone(row, d) ==
    [id |-> 0, ca |-> row.ca, room |-> row.room, date |-> d,
     start |-> row.start, end |-> row.end]

\* C10: for a recurring parent with pattern daily, weekly or biweekly
\* (increment 1, 7 or 14 days) the children created are dated exactly the
\* dates parent.date + k * increment, k >= 1, up to the recurrence end date,
\* on which the detector reports no conflict for the clone: one child per such
\* date, none on the parent's date, after the end date or off the grid.
C10_ChildrenOnGridWithoutConflict ==
    /\ reply.op = "create" /\ reply.status = 201
    /\ reply.data.is_recurring
    /\ reply.data.pattern \in {"daily", "weekly", "biweekly"}
    => LET parent    == sessions[reply.id]
           increment == CASE parent.pattern = "daily"    -> 1
                          [] parent.pattern = "weekly"   -> 7
                          [] parent.pattern = "biweekly" -> 14
           before    == SubSeq(sessions, 1, reply.id)
           free      == {d \in Grid(parent.date, increment, parent.rec_end) :
                            AllClashes(before, Clone(parent, d)) = {}}
       IN  /\ \A c \in Kids : sessions[c].parent = reply.id
           /\ {sessions[c].date : c \in Kids} = free
           /\ Cardinality(Kids) = Cardinality(free)

\* a weekly series was created whose first date was skipped for a conflict
\* and whose last date is the end date itself
C10_Witness ==
    /\ reply.op = "create" /\ reply.status = 201
    /\ reply.data.is_recurring /\ reply.data.pattern = "weekly"
    /\ sessions[reply.id].date = 1 /\ sessions[reply.id].rec_end = 15
    /\ {sessions[c].date : c \in Kids} = {15}
    /\ \E j \in 1..(reply.id - 1) : sessions[j].date = 8 /\ ~Dead(sessions[j])

---------------------------------------------------------------------------
(* Create requests served by two workers at once: perform_create reads the
   table in check_conflicts and writes it in serializer.save() with no
   transaction and no lock around the two, so another request's steps may
   fall between them *)

Workers == DOMAIN Idle

\* plain one-hour sessions
ConcInputs == {p \in PlainInputs : p.end - p.start = Hm(1, 0)}

\* worker p validates a request and runs check_conflicts on the table as it is
CheckCreate(p, data) ==
    /\ procs[p].pc = "idle"
    /\ IF validate(data) # ""
         THEN /\ reply' = Response("create", 0, data, 400, validate(data), <<>>)
              /\ UNCHANGED procs
       ELSE IF check_conflicts(sessions, temp_session(data, 0)) # <<>>
         THEN /\ reply' = Response("create", 0, data, 400, "conflicts",
                                   check_conflicts(sessions, temp_session(data, 0)))
              /\ UNCHANGED procs
       ELSE /\ procs' = [procs EXCEPT ![p] = [pc |-> "checked", data |-> data]]
            /\ UNCHANGED reply
    /\ UNCHANGED <<sessions, notifications>>

\* worker p goes on after `if conflicts:`: the save, the notifications and
\* the recurring sessions, on the table as it is by now
SaveCreate(p, dateutil, cap) ==
    /\ procs[p].pc = "checked"
    /\ LET data     == procs[p].data
           saved    == SaveNew(sessions, data)
           id       == Len(saved)
           expanded == IF saved[id].is_recurring /\ saved[id].pattern # "none"
                         THEN create_recurring_sessions(saved, id, dateutil)
                         ELSE saved
       IN  /\ Len(expanded) <= cap
           /\ sessions' = expanded
           /\ notifications' = notifications \o ScheduledNotices(data.ca, id)
           /\ reply' = Response("create", id, data, 201, "", <<>>)
    /\ procs' = [procs EXCEPT ![p] = [pc |-> "idle"]]

NextConc ==
    \/ \E p \in Workers, data \in ConcInputs : CheckCreate(p, data)
    \/ \E p \in Workers : SaveCreate(p, TRUE, MaxSessions)

SpecConc == Init /\ [][NextConc]_vars

\* two sessions in the schedule hold one room, or one lecturer, on one date
\* at overlapping times
DoubleBooked(store, i, j) ==
    /\ ~Dead(store[i]) /\ ~Dead(store[j])
    /\ store[i].date = store[j].date
    /\ \/ store[i].room # 0 /\ store[i].room = store[j].room
       \/ LecturerOf(store[i].ca) = LecturerOf(store[j].ca)
    /\ TimesCross(store[i], store[j])

\* C1: under any interleaving of two concurrent create requests no reachable
\* state holds two active, non-cancelled sessions of one (room, date) or one
\* (lecturer, date) with overlapping times.
C1_NoDoubleBooking ==
    \A i, j \in Ids(sessions) : i # j => ~DoubleBooked(sessions, i, j)

\* two sessions hold one room on one date at overlapping times
RoomClash(a, b) ==
    /\ a.room # 0 /\ a.room = b.room
    /\ a.date = b.date
    /\ TimesCross(a, b)

\* C11: after the expansion of a recurring parent no two of its children
\* overlap in (room, date, time), and no child overlaps in (room, date, time)
\* an active, non-cancelled session that was in the table when the child was
\* checked (the rows before it: older sessions, the parent, earlier children).
C11_ChildrenNeverOverlapInRoom ==
    reply.op = "create" /\ reply.status = 201 /\ reply.data.is_recurring =>
        /\ \A c, d \in Kids : c # d => ~RoomClash(sessions[c], sessions[d])
        /\ \A c \in Kids : \A j \in 1..(c - 1) :
              ~Dead(sessions[j]) => ~RoomClash(sessions[c], sessions[j])

\* a daily series in a room was created around a live session that holds the
\* room on the second day: the only child is the one of the third day
C11_Witness ==
    /\ reply.op = "create" /\ reply.status = 201
    /\ reply.data.is_recurring /\ reply.data.pattern = "daily"
    /\ sessions[reply.id].room # 0
    /\ {sessions[c].date : c \in Kids} = {3}
    /\ \E j \in 1..(reply.id - 1) :
          /\ ~Dead(sessions[j]) /\ sessions[j].date = 2
          /\ sessions[j].room = sessions[reply.id].room
          /\ LecturerOf(sessions[j].ca) # LecturerOf(sessions[reply.id].ca)
          /\ CohortOf(sessions[j].ca) # CohortOf(sessions[reply.id].ca)

---------------------------------------------------------------------------
(* The life of a session: requests that set the status and recurrence
   fields the serializer lets a client write, requests that carry only some
   of the fields (PATCH), deletes with and without delete_all *)

MaxLife == 2        \* rows the class_sessions table may hold

\* the session the requests are about: assignment 1 in room 1 on day 1 at
\* 09:00-10:00
LifeSessions ==
    {Make(Required \cup {"room"}, 1, 1, 1, Hm(9, 0), Hm(10, 0), Blank)}

\* is_recurring=true with an end date and no recurrence_pattern
Patternless(p) ==
    [p EXCEPT !.has = @ \cup {"is_recurring", "rec_end"},
              !.is_recurring = TRUE, !.rec_end = p.date + 1]

\* the times the other way round
Backwards(p) == [p EXCEPT !.start = p.end, !.end = p.start]

LifeCreateInputs ==
    LifeSessions
    \cup {Daily(p) : p \in LifeSessions}
    \cup {Patternless(p) : p \in LifeSessions}
    \cup {Endless(p) : p \in LifeSessions}
    \cup {Backwards(p) : p \in LifeSessions}

\* a request that carries the named fields only
Only(has, values) ==
    [f \in DOMAIN values \cup {"has"} |-> IF f = "has" THEN has ELSE values[f]]

\* the fields of a request with none supplied
Unset ==
    [ca |-> 0, room |-> 0, date |-> 0, start |-> Absent, end |-> Absent,
     is_recurring |-> FALSE, pattern |-> "none", rec_end |-> 0,
     is_active |-> TRUE, is_cancelled |-> FALSE, reason |-> ""]

\* PATCH requests naming the course assignment and one more thing
Patches(ca) ==
    {Only({"ca", "is_cancelled", "reason"},
          [Unset EXCEPT !.ca = ca, !.is_cancelled = TRUE, !.reason = "moved"]),
     Only({"ca", "is_cancelled"}, [Unset EXCEPT !.ca = ca, !.is_cancelled = TRUE]),
     Only({"ca", "is_cancelled"}, [Unset EXCEPT !.ca = ca, !.is_cancelled = FALSE]),
     Only({"ca", "is_recurring", "pattern", "rec_end"},
          [Unset EXCEPT !.ca = ca, !.is_recurring = TRUE, !.pattern = "daily",
                        !.rec_end = 2]),
     Only({"ca", "is_recurring"}, [Unset EXCEPT !.ca = ca, !.is_recurring = FALSE]),
     Only({"ca", "is_active"}, [Unset EXCEPT !.ca = ca, !.is_active = TRUE]),
     Only({"ca", "start"}, [Unset EXCEPT !.ca = ca, !.start = Hm(11, 0)])}

LifeUpdateInputs ==
    LifeSessions
    \cup {Backwards(p) : p \in LifeSessions}
    \cup Patches(1)
    \cup {Only({"is_cancelled"}, [Unset EXCEPT !.is_cancelled = TRUE])}

LifeFreeQueries == {[lecturer_id |-> LecturerOf(1), date |-> 1, duration |-> 60]}

LifeSuggestQueries ==
    {[course_assignment_id |-> ca, lecturer_id |-> LecturerOf(ca), date |-> 1,
      duration |-> 60, room_type |-> "physical"] : ca \in {1}}

NextLife ==
    \/ \E data \in LifeCreateInputs : Create(data, TRUE, MaxLife)
    \/ \E id \in 1..MaxLife, data \in LifeUpdateInputs : Update(id, data)
    \/ \E id \in 1..MaxLife, delete_all \in BOOLEAN : Destroy(id, delete_all)
    \/ \E id \in 1..MaxLife : Retrieve(id)
    \/ \E q \in LifeFreeQueries : LecturerFreeTimes(q)
    \/ \E q \in LifeSuggestQueries : SuggestOptimalTimes(q)
    \/ Respond

SpecLife == Init /\ [][NextLife]_vars

\* C12: every session whose parent_session is set is not recurring itself and
\* its parent_session names a saved session that is recurring.
C12_ChildrenOfRecurringParents ==
    \A i \in Ids(sessions) :
        sessions[i].parent # 0 =>
            /\ ~sessions[i].is_recurring
            /\ sessions[i].parent \in Ids(sessions)
            /\ sessions[sessions[i].parent].is_recurring

\* C14: every saved session with is_recurring=true has a recurrence pattern
\* among daily, weekly, biweekly, monthly (not none) and a recurrence end date.
C14_RecurringHasPatternAndEnd ==
    \A i \in Ids(sessions) :
        sessions[i].is_recurring =>
            sessions[i].pattern \in Patterns /\ sessions[i].rec_end # 0

\* C15: every saved session, parent or child, ends after it starts.
C15_EndAfterStart ==
    \A i \in Ids(sessions) : sessions[i].end > sessions[i].start

\* C16: every session with is_cancelled=true holds a non-empty cancellation
\* reason.
C16_CancelledHasReason ==
    \A i \in Ids(sessions) : sessions[i].is_cancelled => sessions[i].reason # ""

\* C17: a cancelled session is never scheduled again: once is_cancelled is
\* true no request sets it back to false.
C17_CancelledStaysCancelled ==
    [][\A i \in Ids(sessions) :
          sessions[i].is_cancelled =>
              i \in Ids(sessions') /\ sessions'[i].is_cancelled]_vars

\* the rows no delete has touched
Kept(store) == SelectSeq(store, LAMBDA row : row.is_active)

\* the sessions a conflict list names
Named(details) == {details[k].session_id : k \in DOMAIN details}

\* C13: a deleted session (is_active=false) stays as it is through every later
\* create, update and delete; an update, a delete or a lookup that names it is
\* answered 404 and changes nothing; no conflict list names it; the free slots
\* and the suggestions are those of the table without the deleted rows.
C13_DeletedIsTerminal ==
    [][/\ \A i \in Ids(sessions) :
              ~sessions[i].is_active =>
                  i \in Ids(sessions') /\ sessions'[i] = sessions[i]
       /\ \A op \in {"update", "destroy", "retrieve"} :
              /\ Serves(op)
              /\ reply'.id \in Ids(sessions)
              /\ ~sessions[reply'.id].is_active
              => reply'.status = 404 /\ sessions' = sessions
       /\ \A op \in {"create", "update", "retrieve"} :
              Serves(op) =>
                  \A i \in Named(reply'.details) : sessions[i].is_active
       /\ Serves("free_times") =>
              reply'.out = lecturer_free_times(Kept(sessions), reply'.q)
       /\ Serves("suggest") =>
              reply'.out = suggest_optimal_times(Kept(sessions), reply'.q)]_vars

\* an update that sets is_active=true on a deleted child of a deleted parent
\* has been answered 404
C13_Witness ==
    /\ reply.op = "update" /\ reply.status = 404
    /\ "is_active" \in reply.data.has /\ reply.data.is_active
    /\ reply.id \in Ids(sessions)
    /\ ~sessions[reply.id].is_active
    /\ sessions[reply.id].parent \in Ids(sessions)
    /\ ~sessions[sessions[reply.id].parent].is_active

---------------------------------------------------------------------------
(* perform_destroy write by write: the children's update(is_active=False)
   and the parent's save() are two statements, each committed on its own (no
   transaction around them), so the request can end between the two *)

MaxSteps == 3       \* rows the class_sessions table may hold

\* the daily series of p up to the date `last`
Run(p, last) == [Daily(p) EXCEPT !.rec_end = last]

StepCreateInputs ==
    LifeSessions
    \cup {Run(p, p.date + n) : p \in LifeSessions, n \in 1..(MaxSteps - 1)}

\* PUT requests: the session as it is, an hour later, the times the other
\* way round
StepUpdateInputs ==
    LifeSessions
    \cup {[p EXCEPT !.start = p.end, !.end = p.end + Hm(1, 0)] : p \in LifeSessions}
    \cup {Backwards(p) : p \in LifeSessions}

\* `if instance.is_recurring and instance.recurring_sessions.exists()` with
\* delete_all=true
Cascades(store, id, delete_all) ==
    store[id].is_recurring /\ Children(store, id) # {} /\ delete_all

\* worker p loads the instance and runs recurring_sessions.update(is_active=False)
DestroyCascade(p, id, delete_all) ==
    /\ reply = NoReply
    /\ procs[p].pc = "idle"
    /\ Addressable(sessions, id)
    /\ Cascades(sessions, id, delete_all)
    /\ sessions' = [i \in Ids(sessions) |->
                       IF i \in Children(sessions, id)
                         THEN [sessions[i] EXCEPT !.is_active = FALSE]
                         ELSE sessions[i]]
    /\ procs' = [procs EXCEPT ![p] = [pc |-> "cascaded", id |-> id,
                                      delete_all |-> delete_all,
                                      instance |-> sessions[id],
                                      before |-> sessions]]
    /\ UNCHANGED <<notifications, reply>>

\* worker p goes on: instance.is_active = False; instance.save()
DestroySave(p) ==
    /\ reply = NoReply
    /\ procs[p].pc = "cascaded"
    /\ sessions' = [sessions EXCEPT ![procs[p].id] =
                       [procs[p].instance EXCEPT !.is_active = FALSE]]
    /\ reply' = Response("destroy", procs[p].id,
                         [delete_all |-> procs[p].delete_all], 204, "", <<>>)
    /\ procs' = [procs EXCEPT ![p] = [pc |-> "idle"]]
    /\ UNCHANGED notifications

\* the request of worker p ends before instance.save(): the worker is killed
\* or the statement fails, and nothing undoes the children's update
DestroyInterrupted(p) ==
    /\ reply = NoReply
    /\ procs[p].pc = "cascaded"
    /\ reply' = Response("destroy", procs[p].id,
                         [delete_all |-> procs[p].delete_all], 500, "exception", <<>>)
    /\ procs' = [procs EXCEPT ![p] = [pc |-> "idle"]]
    /\ UNCHANGED <<sessions, notifications>>

\* a delete that writes one row at most: 404, or the instance alone
DestroyAlone(id, delete_all) ==
    /\ Addressable(sessions, id) => ~Cascades(sessions, id, delete_all)
    /\ Destroy(id, delete_all)

NextSteps ==
    \/ \E data \in StepCreateInputs : Create(data, TRUE, MaxSteps)
    \/ \E id \in 1..MaxSteps, data \in StepUpdateInputs : Update(id, data)
    \/ \E p \in Workers, id \in 1..MaxSteps, delete_all \in BOOLEAN :
           DestroyCascade(p, id, delete_all)
    \/ \E p \in Workers : DestroySave(p)
    \/ \E p \in Workers : DestroyInterrupted(p)
    \/ \E id \in 1..MaxSteps, delete_all \in BOOLEAN : DestroyAlone(id, delete_all)
    \/ Respond

SpecSteps == Init /\ [][NextSteps]_vars

\* C18: an update or a delete that does not succeed, a cascading delete that
\* ends between its writes included, leaves every saved session as it was
\* before the call; an update that succeeds writes all its fields.
C18_UpdateAndDeleteAllOrNothing ==
    [][/\ \A p \in Workers :
              /\ procs[p].pc = "cascaded"
              /\ procs'[p].pc = "idle"
              /\ reply'.status # 204
              => \A i \in Ids(procs[p].before) : sessions'[i] = procs[p].before[i]
       /\ \A op \in {"update", "destroy"} :
              Serves(op) /\ reply'.status \notin {200, 204} => sessions' = sessions
       /\ Serves("update") /\ reply'.status = 200 =>
              sessions' = [sessions EXCEPT ![reply'.id] = Updated(@, reply'.data)]]_vars

\* the notifications a step adds, and the (type, session) events they make up
Emitted == SubSeq(notifications', Len(notifications) + 1, Len(notifications'))
Events == {[type |-> n.type, session |-> n.session] : n \in Range(Emitted)}

\* C19: a successful create emits exactly one event, of type class_scheduled,
\* naming the new session; a successful update emits exactly one event naming
\* the updated session, class_cancelled when it sets is_cancelled and
\* class_updated otherwise; a create, update or delete that fails emits none.
C19_OneEventPerMutation ==
    [][/\ Serves("create") /\ reply'.status = 201 =>
              Events = {[type |-> "class_scheduled", session |-> reply'.id]}
       /\ Serves("update") /\ reply'.status = 200 =>
              Events = {[type |-> IF Field(reply'.data, "is_cancelled", FALSE)
                                    THEN "class_cancelled" ELSE "class_updated",
                         session |-> reply'.id]}
       /\ \A op \in {"create", "update", "destroy"} :
              Serves(op) /\ reply'.status \notin {200, 201, 204} => Emitted = <<>>]_vars

---------------------------------------------------------------------------
(* suggest_optimal_times on a day with more free slots than suggestions
   returned: the lecturer is busy for half an hour from half past each of the
   first hours of the working day, and in each free slot some of the rooms
   are taken by another lecturer *)

RankBusy == 6       \* sessions of the lecturer on the day

\* the k-th session of lecturer 1 (assignment 3, no room)
BusyRow(k) ==
    Row(3, 0, 1, Hm(WorkingStartHour + k - 1, 30), Hm(WorkingStartHour + k, 0),
        TRUE, FALSE)

\* a session of lecturer 2 (assignment 2) in the room over the first half
\* hour of the k-th free slot
BlockerRow(k, room) ==
    Row(2, room, 1, Hm(WorkingStartHour + k - 1, 0), Hm(WorkingStartHour + k - 1, 30),
        TRUE, FALSE)

PhysicalRooms == SetToSeq(available_rooms("physical"))

RECURSIVE Blockers(_, _)
\* for each free slot from the k-th on, the first taken[k] rooms are blocked
Blockers(taken, k) ==
    IF k > RankBusy + 1 THEN <<>>
    ELSE [r \in 1..taken[k] |-> BlockerRow(k, PhysicalRooms[r])]
         \o Blockers(taken, k + 1)

RankTable(taken) == [k \in 1..RankBusy |-> BusyRow(k)] \o Blockers(taken, 1)

RankTables ==
    {RankTable(taken) : taken \in [1..(RankBusy + 1) -> 0..Len(PhysicalRooms)]}

RankQueries ==
    {[course_assignment_id |-> 1, lecturer_id |-> LecturerOf(1), date |-> 1,
      duration |-> d, room_type |-> "physical"] : d \in {15, 30}}

InitRank ==
    /\ sessions \in RankTables
    /\ notifications = <<>>
    /\ reply = NoReply
    /\ procs = Idle

NextRank ==
    \/ \E q \in RankQueries : SuggestOptimalTimes(q)
    \/ Respond

SpecRank == InitRank /\ [][NextRank]_vars

\* the suggestions the loop over the free slots emits for the answered query
EmittedSuggestions ==
    SuggestWalk(sessions, reply.q, lecturer_free_times(sessions, reply.q).free_slots, 1)

\* a ranks strictly above b: higher score, or the same score and earlier start
RanksAbove(a, b) ==
    a.score > b.score \/ (a.score = b.score /\ a.start_time < b.start_time)

\* C20: the returned list has at most 5 entries, is ordered by score
\* descending with equal scores by start time ascending, and holds the best
\* emitted suggestions: as many as were emitted up to 5, each an emitted one,
\* and no emitted suggestion left out ranks above one returned.
C20_TopFiveByScoreThenStart ==
    reply.op = "suggest" /\ reply.status = 200 =>
        LET out == reply.out.optimal_suggestions
        IN  /\ Len(out) <= 5
            /\ \A k \in 1..(Len(out) - 1) : ~RanksAbove(out[k + 1], out[k])
            /\ Len(out) = Min(5, Len(EmittedSuggestions))
            /\ Range(out) \subseteq Range(EmittedSuggestions)
            /\ \A k, l \in DOMAIN out : k # l => out[k] # out[l]
            /\ \A e \in Range(EmittedSuggestions) \ Range(out) :
                   \A o \in Range(out) : ~RanksAbove(e, o)

\* more than 5 suggestions were emitted, the returned ones have two scores with
\* a tie among them, and one left out ties with the last returned
C20_Witness ==
    /\ reply.op = "suggest" /\ reply.status = 200
    /\ Len(EmittedSuggestions) > 5
    /\ LET out == reply.out.optimal_suggestions
       IN  /\ Len(out) = 5
           /\ out[1].score > out[5].score
           /\ out[1].score = out[2].score
           /\ \E e \in Range(EmittedSuggestions) \ Range(out) : e.score = out[5].score
           /\ \E k \in 1..4 : out[k].start_time > out[k + 1].start_time

---------------------------------------------------------------------------
(* check_room_availability and check_session_conflicts: the two endpoints
   that look for conflicts without saving anything. Their parameters arrive
   as text; a time text is the minute of the day, a parameter left out is 0
   (Absent for a time) *)

\* datetime.strptime(text, '%H:%M') raises ValueError outside 00:00..23:59
ParsesHM(text) == text \in 0..(24 * MinutesPerHour - 1)

\* the room's live sessions of the date, whatever the session being edited
availability_scan_unexcluded(store, q) ==
    {i \in Ids(store) : /\ store[i].room = q.room_id
                        /\ store[i].date = q.date
                        /\ Live(store[i])}

\* filter(room, scheduled_date, is_active, not is_cancelled), then
\* `if session_id: conflicts = conflicts.exclude(id=session_id)`
availability_scan(store, q) ==
    {i \in Ids(store) : /\ store[i].room = q.room_id
                        /\ store[i].date = q.date
                        /\ Live(store[i])
                        /\ ~(q.session_id # 0 /\ i = q.session_id)}

\* the response of check_room_availability to the query parameters q
check_room_availability(store, q) ==
    IF q.room_id = 0 \/ q.date = 0 \/ q.start_time = Absent \/ q.end_time = Absent
      THEN [status |-> 400, error |-> "missing", is_available |-> FALSE,
            conflicts |-> <<>>]
    ELSE IF q.room_id \notin Rooms
      THEN [status |-> 404, error |-> "not found", is_available |-> FALSE,
            conflicts |-> <<>>]
    ELSE IF ~ParsesHM(q.start_time) \/ ~ParsesHM(q.end_time)
      THEN [status |-> 400, error |-> "exception", is_available |-> FALSE,
            conflicts |-> <<>>]
    ELSE LET conflicting_sessions ==
                 Ordered(store,
                     {i \in availability_scan(store, q) :
                         Overlap(ParseHM(q.start_time), ParseHM(q.end_time),
                                 store[i].start, store[i].end)})
         IN  [status |-> 200, error |-> "",
              is_available |-> conflicting_sessions = <<>>,
              conflicts |-> conflicting_sessions]

\* GET rooms/check-availability/
CheckRoomAvailability(q) ==
    /\ reply = NoReply
    /\ reply' = Answer("room_availability", q,
                       check_room_availability(sessions, q).status,
                       check_room_availability(sessions, q))
    /\ UNCHANGED <<sessions, notifications, procs>>

\* ClassSession(course_assignment, scheduled_date, start_time, end_time,
\* room_id) with temp_session.id set when the request names a session: the
\* times stay the texts of the request
preview_session(data) ==
    [id |-> data.id, ca |-> data.course_assignment_id, room |-> data.room_id,
     date |-> data.scheduled_date, start |-> data.start_time, end |-> data.end_time]

\* check_conflicts on that candidate raises: self.room names no room, or a
\* scan holds a row, whose time is then compared with a text (TypeError)
preview_raises(store, cand) ==
    \/ cand.room # 0 /\ cand.room \notin Rooms
    \/ cand.room # 0 /\ RoomScan(store, cand) # {}
    \/ LecturerScan(store, cand) # {}
    \/ StudentScan(store, cand) # {}

\* the response of check_session_conflicts to the request body
check_session_conflicts(store, data) ==
    IF \/ data.course_assignment_id = 0 \/ data.scheduled_date = 0
       \/ data.start_time = Absent \/ data.end_time = Absent
      THEN [status |-> 400, error |-> "missing", has_conflicts |-> FALSE,
            conflicts |-> <<>>]
    ELSE IF data.course_assignment_id \notin Assignments
      THEN [status |-> 404, error |-> "not found", has_conflicts |-> FALSE,
            conflicts |-> <<>>]
    ELSE IF preview_raises(store, preview_session(data))
      THEN [status |-> 400, error |-> "exception", has_conflicts |-> FALSE,
            conflicts |-> <<>>]
    ELSE [status |-> 200, error |-> "", has_conflicts |-> FALSE, conflicts |-> <<>>]

\* check_session_conflicts with the candidate saved on the way
CheckSessionConflicts_saving(data) ==
    /\ reply = NoReply
    /\ reply' = Answer("check_conflicts", data,
                       check_session_conflicts(sessions, data).status,
                       check_session_conflicts(sessions, data))
    /\ sessions' = IF check_session_conflicts(sessions, data).status = 200
                     THEN Append(sessions,
                                 Row(data.course_assignment_id, data.room_id,
                                     data.scheduled_date, ParseHM(data.start_time),
                                     ParseHM(data.end_time), TRUE, FALSE))
                     ELSE sessions
    /\ UNCHANGED <<notifications, procs>>

\* POST sessions/check-conflicts/
CheckSessionConflicts(data) ==
    /\ reply = NoReply
    /\ reply' = Answer("check_conflicts", data,
                       check_session_conflicts(sessions, data).status,
                       check_session_conflicts(sessions, data))
    /\ UNCHANGED <<sessions, notifications, procs>>

---------------------------------------------------------------------------
(* The endpoints that only read, over tables of live, cancelled and deleted
   sessions *)

ReadRows == 2       \* rows of the class_sessions table

\* sessions at 09:00-10:00, 09:00:30-10:00, 09:30-10:30, 10:00-11:00
ReadRowSet ==
    {Row(ca, room, 1, t[1], t[2], status[1], status[2]) :
        ca \in Assignments, room \in {0, 1},
        t \in {<<Hm(9, 0), Hm(10, 0)>>, <<Hm(9, 0) + 30, Hm(10, 0)>>,
               <<Hm(9, 30), Hm(10, 30)>>, <<Hm(10, 0), Hm(11, 0)>>},
        status \in {<<TRUE, FALSE>>, <<TRUE, TRUE>>, <<FALSE, FALSE>>}}

\* room_id, date, start_time, end_time, session_id of the query string: a
\* room that exists or not, a session being edited or not; then a query
\* without end_time, one with the time 24:00, one whose end is its start
AvailabilityQueries ==
    {[room_id |-> room, date |-> 1, start_time |-> t[1], end_time |-> t[2],
      session_id |-> id] :
        room \in {1, NumRooms + 1}, id \in {0, 1},
        t \in {<<FormatHM(Hm(9, 0)), FormatHM(Hm(10, 0))>>,
               <<FormatHM(Hm(10, 0)), FormatHM(Hm(11, 0))>>}}
    \cup {[room_id |-> 1, date |-> 1, start_time |-> FormatHM(Hm(9, 0)),
           end_time |-> e, session_id |-> 0] :
             e \in {Absent, FormatHM(Hm(24, 0)), FormatHM(Hm(9, 0))}}

\* course_assignment_id, scheduled_date, start_time, end_time, room_id, id of
\* the request body; then a body without scheduled_date
PreviewInputs ==
    {[course_assignment_id |-> ca, scheduled_date |-> 1, start_time |-> t[1],
      end_time |-> t[2], room_id |-> room, id |-> id] :
        ca \in {1, 2, NumAssignments + 1}, room \in {0, 1, NumRooms + 1},
        t \in {<<FormatHM(Hm(9, 0)), FormatHM(Hm(10, 0))>>}, id \in {0, 1}}
    \cup {[course_assignment_id |-> 1, scheduled_date |-> 0,
           start_time |-> FormatHM(Hm(9, 0)), end_time |-> FormatHM(Hm(10, 0)),
           room_id |-> 0, id |-> 0]}

InitRead ==
    /\ sessions \in Tables(ReadRowSet, ReadRows)
    /\ notifications = <<>>
    /\ reply = NoReply
    /\ procs = Idle

NextRead ==
    \/ \E id \in 1..ReadRows : Retrieve(id)
    \/ \E data \in PreviewInputs : CheckSessionConflicts(data)
    \/ \E q \in AvailabilityQueries : CheckRoomAvailability(q)
    \/ \E q \in LifeFreeQueries : LecturerFreeTimes(q)
    \/ \E q \in LifeSuggestQueries : SuggestOptimalTimes(q)
    \/ Respond

SpecRead == InitRead /\ [][NextRead]_vars

LecturerClashes ==
    {j \in RowsSeen \ {Detected.id} :
        /\ ~Dead(sessions[j])
        /\ LecturerOf(sessions[j].ca) = LecturerOf(Detected.ca)
        /\ sessions[j].date = Detected.date
        /\ TimesCross(Detected, sessions[j])}

\* the places of the conflict list that hold a conflict of the kind
OfKind(details, kind) == {k \in DOMAIN details : details[k].type = kind}

\* C22: the lecturer conflicts of a detection are one per live session (other
\* than the excluded one) of the candidate's lecturer on the candidate's date
\* whose times overlap the candidate's, whatever the rooms: each such session
\* is named once and no other session is named.
C22_OneLecturerConflictPerOverlap ==
    DetectorRan =>
        /\ {reply.details[k].session_id : k \in OfKind(reply.details, "lecturer")}
               = LecturerClashes
        /\ Cardinality(OfKind(reply.details, "lecturer")) = Cardinality(LecturerClashes)

\* a create was refused with exactly one lecturer conflict, against a session
\* held in another room, and without any room conflict
C22_Witness ==
    /\ reply.op = "create" /\ reply.status = 400 /\ reply.error = "conflicts"
    /\ Cardinality(OfKind(reply.details, "lecturer")) = 1
    /\ OfKind(reply.details, "room") = {}
    /\ reply.data.room # 0
    /\ \E j \in LecturerClashes :
          sessions[j].room # 0 /\ sessions[j].room # reply.data.room

\* the increment of the pattern in days (daily, weekly, biweekly)
IncrementDays(pattern) ==
    CASE pattern = "daily"    -> DailyDays
      [] pattern = "weekly"   -> WeeklyDays
      [] pattern = "biweekly" -> BiweeklyDays

\* C23: a recurring create whose own candidate has no conflict succeeds with
\* the parent saved, whatever conflicts the dates of its series meet: a date
\* with a conflict gets no child and raises nothing, and every date of the
\* series up to the end date without a conflict, those after a skipped date
\* too, gets its child.
C23_ConflictingDateSkippedSeriesGoesOn ==
    [][/\ Serves("create")
       /\ validate(reply'.data) = ""
       /\ reply'.data.is_recurring /\ reply'.data.pattern \in {"daily", "weekly", "biweekly"}
       /\ check_conflicts(sessions, temp_session(reply'.data, 0)) = <<>>
       => LET parent == Len(sessions) + 1
              saved  == Append(sessions, NewRow(reply'.data))
              dates  == Grid(saved[parent].date, IncrementDays(saved[parent].pattern),
                             saved[parent].rec_end)
              at(d)  == {c \in Ids(sessions') : c > parent /\ sessions'[c].date = d}
          IN  /\ reply'.status = 201 /\ reply'.error = "" /\ reply'.id = parent
              /\ SubSeq(sessions', 1, parent) = saved
              /\ \A d \in dates :
                     IF AllClashes(saved, Clone(saved[parent], d)) # {}
                       THEN at(d) = {}
                       ELSE /\ Cardinality(at(d)) = 1
                            /\ \A c \in at(d) :
                                   sessions'[c] = recurring_session(saved, parent, d)]_vars

\* a biweekly series was created whose first date was skipped for a lecturer
\* conflict and whose second date, the end date, has its child
C23_Witness ==
    /\ reply.op = "create" /\ reply.status = 201
    /\ reply.data.is_recurring /\ reply.data.pattern = "biweekly"
    /\ sessions[reply.id].rec_end = 29
    /\ {sessions[c].date : c \in Kids} = {29}
    /\ \E j \in 1..(reply.id - 1) :
          /\ sessions[j].date = 15 /\ ~Dead(sessions[j])
          /\ LecturerOf(sessions[j].ca) = LecturerOf(reply.data.ca)

---------------------------------------------------------------------------
(* create_recurring_sessions pass by pass: every save() of the loop is
   committed on its own, so a request that ends between two passes leaves the
   children saved so far. One request is served at a time *)

ExpandRows == 1     \* sessions the table holds before the series
MaxExpand == 4      \* rows the table may hold in all

\* a daily series over three dates, a weekly one over two
ExpandInputs ==
    {Series(Make(Required \cup {"room"}, ca, room, 1, Hm(9, 0), Hm(10, 0), Blank),
            pe[1], pe[2]) :
        ca \in {1, 2}, room \in {0, 1}, pe \in {<<"daily", 4>>, <<"weekly", 15>>}}

InitExpand ==
    /\ sessions \in Tables(SeriesRowSet, ExpandRows)
    /\ notifications = <<>>
    /\ reply = NoReply
    /\ procs = Idle

\* perform_create up to the call of create_recurring_sessions, and that call
\* up to the head of its while loop; dateutil says whether relativedelta can be
\* imported on this installation
ExpandBegin(p, data, dateutil, cap) ==
    /\ reply = NoReply
    /\ \A w \in Workers : procs[w].pc = "idle"
    /\ LET conflicts == check_conflicts(sessions, temp_session(data, 0))
           saved     == SaveNew(sessions, data)
           id        == Len(saved)
       IN  IF validate(data) # ""
             THEN /\ reply' = Response("create", 0, data, 400, validate(data), <<>>)
                  /\ UNCHANGED <<sessions, notifications, procs>>
           ELSE IF conflicts # <<>>
             THEN /\ reply' = Response("create", 0, data, 400, "conflicts", conflicts)
                  /\ UNCHANGED <<sessions, notifications, procs>>
           ELSE /\ Len(saved) <= cap
                /\ sessions' = saved
                /\ notifications' = notifications \o ScheduledNotices(data.ca, id)
                /\ IF /\ saved[id].is_recurring /\ saved[id].pattern # "none"
                      /\ saved[id].pattern \in Patterns
                     THEN /\ procs' = [procs EXCEPT ![p] =
                                 [pc |-> "expanding", parent |-> id, data |-> data,
                                  dateutil |-> dateutil,
                                  current_date |-> NextDate(saved[id].pattern, dateutil,
                                                            saved[id].date)]]
                          /\ UNCHANGED reply
                     ELSE /\ reply' = Response("create", id, data, 201, "", <<>>)
                          /\ UNCHANGED procs

\* one pass of the while loop
ExpandStep(p, cap) ==
    /\ procs[p].pc = "expanding"
    /\ procs[p].current_date <= sessions[procs[p].parent].rec_end
    /\ Len(RecurStep(sessions, procs[p].parent, procs[p].current_date)) <= cap
    /\ sessions' = RecurStep(sessions, procs[p].parent, procs[p].current_date)
    /\ procs' = [procs EXCEPT ![p].current_date =
                    NextDate(sessions[procs[p].parent].pattern, procs[p].dateutil, @)]
    /\ UNCHANGED <<notifications, reply>>

\* the loop is over: the response of the create
ExpandDone(p) ==
    /\ procs[p].pc = "expanding"
    /\ procs[p].current_date > sessions[procs[p].parent].rec_end
    /\ reply' = Response("create", procs[p].parent, procs[p].data, 201, "", <<>>)
    /\ procs' = [procs EXCEPT ![p] = [pc |-> "idle"]]
    /\ UNCHANGED <<sessions, notifications>>

\* the request ends at the head of the loop, with its children taken back
ExpandInterrupted_rolled_back(p) ==
    /\ procs[p].pc = "expanding"
    /\ reply' = Response("create", procs[p].parent, procs[p].data, 500, "exception", <<>>)
    /\ procs' = [procs EXCEPT ![p] = [pc |-> "idle"]]
    /\ sessions' = SubSeq(sessions, 1, procs[p].parent)
    /\ UNCHANGED notifications

\* the request ends at the head of the loop (the worker is killed): what
\* was saved stays saved
ExpandInterrupted(p) ==
    /\ procs[p].pc = "expanding"
    /\ reply' = Response("create", procs[p].parent, procs[p].data, 500, "exception", <<>>)
    /\ procs' = [procs EXCEPT ![p] = [pc |-> "idle"]]
    /\ UNCHANGED <<sessions, notifications>>

NextExpand ==
    \/ \E p \in Workers, data \in ExpandInputs : ExpandBegin(p, data, TRUE, MaxExpand)
    \/ \E p \in Workers : ExpandStep(p, MaxExpand)
    \/ \E p \in Workers : ExpandDone(p)
    \/ \E p \in Workers : ExpandInterrupted(p)
    \/ Respond

SpecExpand == InitExpand /\ [][NextExpand]_vars

\* the children of parent i are the conflict-free dates of a prefix of its
\* grid, one complete copy of the parent per date
PrefixOfSeries(store, i) ==
    LET dates == Grid(store[i].date, IncrementDays(store[i].pattern), store[i].rec_end)
        kids  == Children(store, i)
    IN  /\ \E cut \in dates \cup {store[i].date} :
               {store[c].date : c \in kids} =
                   {d \in dates : /\ d <= cut
                                  /\ AllClashes(SubSeq(store, 1, i), Clone(store[i], d)) = {}}
        /\ \A c \in kids :
               /\ c > i
               /\ store[c] = recurring_session(store, i, store[c].date)
               /\ store[c].end > store[c].start
               /\ \A e \in kids : store[e].date = store[c].date => e = c

\* C24: whenever the expansion of a series stops between two passes, and at
\* every moment before, the children saved are exactly the conflict-free dates
\* of a prefix of the grid, each a complete copy naming the parent; stopping
\* takes nothing back, and no child of a later date is there.
C24_InterruptedExpansionLeavesPrefix ==
    [][/\ Len(sessions') >= Len(sessions)
       /\ \A i \in Ids(sessions) : sessions'[i] = sessions[i]
       /\ \A i \in Ids(sessions') :
              sessions'[i].is_recurring /\ sessions'[i].pattern \in {"daily", "weekly"}
              => PrefixOfSeries(sessions', i)]_vars

\* a daily series over days 2, 3 and 4 was stopped before day 4: day 2 was
\* skipped for a conflict, day 3 has its child, day 4 has none
C24_Witness ==
    /\ reply.op = "create" /\ reply.status = 500
    /\ sessions[reply.id].pattern = "daily" /\ sessions[reply.id].rec_end = 4
    /\ {sessions[c].date : c \in Children(sessions, reply.id)} = {3}
    /\ AllClashes(sessions, Clone(sessions[reply.id], 2)) # {}
    /\ AllClashes(sessions, Clone(sessions[reply.id], 4)) = {}

\* the lecturer's busy sessions of the date lie inside the working hours and
\* no two of them overlap
InsideAndApart(store, q) ==
    /\ \A j \in BusyRows(store, q) :
           working_start <= store[j].start /\ store[j].end <= working_end
    /\ \A i, j \in BusyRows(store, q) : i # j => ~TimesCross(store[i], store[j])

\* C25: for a lecturer whose busy sessions of the date do not overlap and lie
\* inside [08:00, 18:00], the free slots are, in ascending start order, exactly
\* the unbooked stretches between 08:00, the sessions and 18:00 that are at
\* least requiredMinutes long (written in hours and minutes), each with
\* duration_minutes equal to its end minus its start; with no busy session and
\* requiredMinutes <= 600 the answer is the one slot 08:00-18:00 of 600.
C25_FreeSlotsAreTheLongGaps ==
    /\ reply.op = "free_times" /\ reply.status = 200
    /\ InsideAndApart(sessions, reply.q)
    => LET slots == reply.out.free_slots
           want  == {g \in Gaps(sessions, reply.q) :
                        g[2] - g[1] >= reply.q.duration * SecondsPerMinute}
       IN  /\ {<<slots[k].start_time, slots[k].end_time>> : k \in DOMAIN slots}
                  = {<<FormatHM(g[1]), FormatHM(g[2])>> : g \in want}
           /\ Len(slots) = Cardinality(want)
           /\ \A k \in 1..(Len(slots) - 1) :
                  slots[k].start_time < slots[k + 1].start_time
           /\ \A k \in DOMAIN slots :
                  slots[k].duration_minutes = slots[k].end_time - slots[k].start_time
           /\ BusyRows(sessions, reply.q) = {}
                 /\ reply.q.duration <= (WorkingEndHour - WorkingStartHour) * MinutesPerHour
              => slots = <<Slot(working_start, working_end,
                                (WorkingEndHour - WorkingStartHour) * MinutesPerHour)>>

\* C26: with every request served whole, one after another, any two live
\* sessions of one date whose times overlap are in different rooms (or in none)
\* and have different lecturers, after creates, recurring ones too, full and
\* partial updates and deletes.
C26_SequentialRequestsNeverDoubleBook ==
    \A i, j \in Ids(sessions) :
        /\ i < j
        /\ ~Dead(sessions[i]) /\ ~Dead(sessions[j])
        /\ sessions[i].date = sessions[j].date
        /\ TimesCross(sessions[i], sessions[j])
        => /\ sessions[i].room = 0 \/ sessions[i].room # sessions[j].room
           /\ LecturerOf(sessions[i].ca) # LecturerOf(sessions[j].ca)

---------------------------------------------------------------------------
(* The expansion of one series in each of the four patterns, on an
   installation with dateutil and on one without, run to its end: the
   request's thread runs the loop without waiting for anything *)

MaxTerm == 3        \* rows the table may hold

\* parents on the first of January, the last of January, of February and of
\* December; end dates: the day before the first date of the series, that
\* date itself, the second date
TermInputs(dateutil) ==
    UNION {{Series(Make(Required \cup {"room"}, 1, 1, d, Hm(9, 0), Hm(10, 0), Blank),
                   pattern, rec_end) :
               rec_end \in {NextDate(pattern, dateutil, d) - 1,
                            NextDate(pattern, dateutil, d),
                            NextDate(pattern, dateutil,
                                     NextDate(pattern, dateutil, d))}} :
           pattern \in Patterns, d \in {1, 31, 59, 365}}

\* one series on the empty table
NextTerm ==
    \/ \E p \in Workers, dateutil \in BOOLEAN :
           \E data \in TermInputs(dateutil) :
               sessions = <<>> /\ ExpandBegin(p, data, dateutil, MaxTerm)
    \/ \E p \in Workers : ExpandStep(p, MaxTerm)
    \/ \E p \in Workers : ExpandDone(p)
    \/ Respond

SpecTerm ==
    /\ Init /\ [][NextTerm]_vars
    /\ \A p \in Workers : WF_vars(ExpandStep(p, MaxTerm)) /\ WF_vars(ExpandDone(p))

\* C27: the expansion of a recurring parent ends: the first candidate date is
\* after the parent's date, every pass of the loop moves the candidate date
\* forward, in each of the four patterns, and a request that has entered the
\* loop leaves it; when the end date is before parent date + increment the
\* finished series has no child.
C27_ExpansionTerminates ==
    /\ [][\A p \in Workers :
             /\ procs[p].pc # "expanding" /\ procs'[p].pc = "expanding"
                => procs'[p].current_date > sessions'[procs'[p].parent].date
             /\ procs[p].pc = "expanding" /\ procs'[p].pc = "expanding"
                /\ procs'[p] # procs[p]
                => procs'[p].current_date > procs[p].current_date
             /\ procs[p].pc = "expanding" /\ procs'[p].pc = "idle"
                /\ sessions[procs[p].parent].rec_end
                       < NextDate(sessions[procs[p].parent].pattern, procs[p].dateutil,
                                  sessions[procs[p].parent].date)
                => Children(sessions', procs[p].parent) = {}]_vars
    /\ \A p \in Workers : (procs[p].pc = "expanding") ~> (procs[p].pc = "idle")

\* a monthly series from the last of January, on an installation without
\* dateutil, came to its end with its two children
C27_Witness ==
    /\ reply.op = "create" /\ reply.status = 201
    /\ sessions[reply.id].pattern = "monthly" /\ sessions[reply.id].date = 31
    /\ {sessions[c].date : c \in Children(sessions, reply.id)}
           = {31 + FallbackDays, 31 + 2 * FallbackDays}

\* the candidate of assignment ca that a room-availability query describes
Queried(q, ca) ==
    [id |-> q.session_id, ca |-> ca, room |-> q.room_id, date |-> q.date,
     start |-> ParseHM(q.start_time), end |-> ParseHM(q.end_time)]

\* the sessions named by the conflicts of the kind in a conflict list
NamedOfKind(details, kind) ==
    {details[k].session_id : k \in OfKind(details, kind)}

\* C28: an answered room-availability check agrees with the conflict detector
\* run on a candidate of that room, date, interval and id, whatever its course
\* assignment: is_available is true exactly when the detector reports no room
\* conflict, and the two name the same sessions.
C28_AvailabilityAgreesWithDetector ==
    reply.op = "room_availability" /\ reply.status = 200 =>
        \A ca \in Assignments :
            LET details == check_conflicts(sessions, Queried(reply.q, ca))
            IN  /\ reply.out.is_available <=> OfKind(details, "room") = {}
                /\ Range(reply.out.conflicts) = NamedOfKind(details, "room")
                /\ Len(reply.out.conflicts) = Cardinality(OfKind(details, "room"))

\* the check for a session being edited named the other session of the room
\* and not the edited one, both live and both across the asked interval
C28_Witness ==
    /\ reply.op = "room_availability" /\ reply.status = 200
    /\ ~reply.out.is_available
    /\ reply.q.session_id = 1
    /\ reply.out.conflicts = <<2>>
    /\ ~Dead(sessions[1]) /\ sessions[1].room = reply.q.room_id
    /\ TimesCross(Queried(reply.q, 1), sessions[1])

---------------------------------------------------------------------------
(* Deletes of parents, children and plain sessions, each served whole *)

MaxDelete == 4      \* rows the class_sessions table may hold

\* the session of LifeSessions alone or as a daily series of up to two
\* children, and a roomless session of another lecturer at its time
NextDelete ==
    \/ \E data \in StepCreateInputs
                   \cup {Make(Required, 2, 0, 1, Hm(9, 0), Hm(10, 0), Blank)} :
           Create(data, TRUE, MaxDelete)
    \/ \E id \in 1..MaxDelete, delete_all \in BOOLEAN : Destroy(id, delete_all)
    \/ Respond

SpecDelete == Init /\ [][NextDelete]_vars

\* C29: a delete that succeeds sets is_active=false on the session; when the
\* session is a recurring parent and delete_all is true it sets it on every
\* session whose parent_session is that parent as well; without delete_all
\* the children are unchanged, and those that are live are still found by
\* the conflict scans; every other session is unchanged.
C29_DeleteTouchesParentAndChildrenOnly ==
    [][Serves("destroy") /\ reply'.status = 204
       => LET id   == reply'.id
              kids == Children(sessions, id)
              all  == reply'.data.delete_all /\ sessions[id].is_recurring
          IN  /\ Len(sessions') = Len(sessions)
              /\ sessions'[id] = [sessions[id] EXCEPT !.is_active = FALSE]
              /\ \A c \in kids \ {id} :
                     IF all
                       THEN sessions'[c] = [sessions[c] EXCEPT !.is_active = FALSE]
                       ELSE /\ sessions'[c] = sessions[c]
                            /\ ~Dead(sessions[c]) =>
                                   c \in Named(check_conflicts(sessions',
                                                   AsCandidate(sessions[c], 0)))
              /\ \A j \in Ids(sessions) \ (kids \cup {id}) :
                     sessions'[j] = sessions[j]]_vars

\* a recurring parent was deleted without delete_all: its two children are
\* live, and so is another lecturer's session
C29_Witness ==
    /\ reply.op = "destroy" /\ reply.status = 204 /\ ~reply.data.delete_all
    /\ sessions[reply.id].is_recurring
    /\ Cardinality(Children(sessions, reply.id)) = 2
    /\ \A c \in Children(sessions, reply.id) : ~Dead(sessions[c])
    /\ \E j \in Ids(sessions) :
          j # reply.id /\ sessions[j].parent = 0 /\ ~Dead(sessions[j])

---------------------------------------------------------------------------
(* The candidate without a room *)

\* the candidate the request body of a preview describes, its times read
Previewed(data) ==
    [id |-> data.id, ca |-> data.course_assignment_id, room |-> data.room_id,
     date |-> data.scheduled_date, start |-> ParseHM(data.start_time),
     end |-> ParseHM(data.end_time)]

\* C30: a candidate without a room is never given a conflict of kind room,
\* and its lecturer and cohort conflicts are still evaluated: the preview of
\* a complete request that names no room answers with exactly the lecturer
\* and student conflicts of the candidate.
C30_RoomlessCandidateStillChecked ==
    /\ reply.op = "check_conflicts"
    /\ reply.q.room_id = 0
    /\ reply.q.scheduled_date # 0
    /\ reply.q.course_assignment_id \in Assignments
    => LET details == check_conflicts(sessions, Previewed(reply.q))
       IN  /\ OfKind(details, "room") = {}
           /\ reply.status = 200
           /\ reply.out.conflicts = details
           /\ reply.out.has_conflicts <=> details # <<>>

====
